---- MODULE Spec2Model ----
(***************************************************************************)
(* A model of huandu/go-magicstring: a payload header hidden in front of   *)
(* a string's bytes, found again from the string's data pointer alone.     *)
(*                                                                         *)
(* Memory is a flat array of bytes.  A string value is its (ptr, len)      *)
(* pair, an interface value is its two machine words (16 bytes), a         *)
(* checksum is the 8 bytes of a little-endian uint64.  Allocation hands    *)
(* out fresh, zero-filled, 8-aligned regions at increasing addresses and   *)
(* never reuses one.  The collector is two steps: a registered finalizer   *)
(* runs once its object is unreachable, and a payload object is released   *)
(* once nothing the collector scans refers to it.                          *)
(***************************************************************************)
EXTENDS Integers, Sequences, FiniteSets, TLC

(* ------------------------------ bounds ------------------------------- *)

\* Allocations one run makes (Attach, Detach, Slice and the caller's own).
MaxAllocs == 2
\* String variables the caller holds.
NumVars == 2
\* Payload objects the caller created.
NumData == 2
\* Steps the caller takes in one run (calls and steps of its own).
MaxSteps == 4

(* ------------------------- program constants ------------------------- *)

\* unsafe.Sizeof(uintptr(0)) - 1 on a 64-bit build.
pointerMask == 7
\* unsafe.Sizeof(magicStringPayload{}): uint64 + interface{}.
sizeofPayload == 24
\* 0xcfb6b2da518bead as the 8 bytes of a little-endian uint64.
checksumMask == <<173, 190, 24, 165, 45, 107, 251, 12>>
\* runtime.MemStats.BySize[i].Size: the first size classes of the allocator.
BySize == <<0, 8, 16, 24, 32, 48>>

(* --------------------------- machine words --------------------------- *)

RECURSIVE Xor(_, _)
\* a ^ b on naturals.
Xor(a, b) ==
  IF a = 0 /\ b = 0 THEN 0
  ELSE (((a % 2) + (b % 2)) % 2) + 2 * Xor(a \div 2, b \div 2)

\* uint64(ptr): the 8 little-endian bytes of an address (addresses < 65536).
Word(n) == <<n % 256, (n \div 256) % 256, 0, 0, 0, 0, 0, 0>>

\* makeChecksum: uint64(ptr) ^ checksumMask.
makeChecksum(ptr) == [i \in 1..8 |-> Xor(Word(ptr)[i], checksumMask[i])]

(* --------------------------- size classes ---------------------------- *)

RECURSIVE initHolders(_)
\* init(): the data sizes left by each size class larger than the header.
initHolders(i) ==
  IF i > Len(BySize) THEN <<>>
  ELSE (IF BySize[i] <= sizeofPayload THEN <<>>
        ELSE <<BySize[i] - sizeofPayload>>) \o initHolders(i + 1)

holderWithSizeClasses == initHolders(1)

smallStringMax == holderWithSizeClasses[Len(holderWithSizeClasses)]

RECURSIVE Search(_, _, _, _)
\* sort.Search: the smallest 0-based index in [lo, hi) with a[index] >= x.
Search(a, x, lo, hi) ==
  IF lo >= hi THEN lo
  ELSE LET h == (lo + hi) \div 2
       IN  IF a[h + 1] < x THEN Search(a, x, h + 1, hi) ELSE Search(a, x, lo, h)

SearchInts(a, x) == Search(a, x, 0, Len(a))

(* ------------------------------ memory ------------------------------- *)

\* The size the allocator gives a request: a multiple of the word size.
RoundUp(n) == ((n + pointerMask) \div (pointerMask + 1)) * (pointerMask + 1)

\* The largest region one allocation takes: a large holder of the longest string.
MaxAllocSize == RoundUp(sizeofPayload + smallStringMax + 1)

\* The caller's own buffers, built before the first call: one of text, one of
\* bytes chosen against the checksum, each as long as the longest string.
TextBase == sizeofPayload

ForgedBase == TextBase + RoundUp(smallStringMax + 1)

\* The first address the calls allocate at.
HeapBase == ForgedBase + RoundUp(smallStringMax + 1)

MemSize == HeapBase + MaxAllocs * MaxAllocSize

Addrs == 0..(MemSize - 1)

\* Addresses of the payload objects and of their type descriptor, outside the heap.
DataAddr(p) == MemSize + 8 * p

TypeAddr == MemSize + 8 * (NumData + 1)

Load(m, addr, n) == [i \in 1..n |-> m[addr + i - 1]]

RECURSIVE StoreFrom(_, _, _, _)
StoreFrom(m, addr, bytes, i) ==
  IF i > Len(bytes) THEN m
  ELSE StoreFrom([m EXCEPT ![addr + i - 1] = bytes[i]], addr, bytes, i + 1)

\* copy(m[addr:], bytes).
Store(m, addr, bytes) == StoreFrom(m, addr, bytes, 1)

(* --------------------------- values ---------------------------------- *)

\* A string header: reflect.StringHeader{Data, Len}.
Str(ptr, len) == [ptr |-> ptr, len |-> len]

\* The literal "": a nil data pointer.
EmptyStr == Str(0, 0)

\* interface{}(nil): both words zero.
NilData == Word(0) \o Word(0)

\* interface{}(p) for the payload object p: type word, data word.
Iface(p) == Word(TypeAddr) \o Word(DataAddr(p))

Bytes(m, str) == Load(m, str.ptr, str.len)

\* str[begin:end] as the compiler builds it: the pointer moves only when the
\* result is not empty, so an empty result never points past its object.
SubStr(str, begin, end) ==
  Str(IF end - begin = 0 THEN str.ptr ELSE str.ptr + begin, end - begin)

(* ------------------------------ state -------------------------------- *)

VARIABLES
  mem,       \* the heap, byte by byte
  brk,       \* the next fresh address
  objs,      \* the allocations made, in order: base, size, kind, finalizer
  strs,      \* the caller's string variables
  held,      \* the payload objects the caller still refers to
  released,  \* the payload objects the collector has reclaimed
  steps,     \* the steps the caller has taken
  abs,       \* history: data pointer of each Attach result -> its length and payload
  last       \* history: the last call, its arguments and its result

vars == <<mem, brk, objs, strs, held, released, steps, abs, last>>

Vars == 1..NumVars

Data == 1..NumData

\* The payloads a caller can pass: nil, or an object it still refers to.
Payloads == {NilData} \cup {Iface(p) : p \in held}

(* ------------------------- identification ---------------------------- *)

\* read: the header address found from str's data pointer, 0 (nil) for none.
read(m, str) ==
  LET data == str.ptr - (str.ptr % (pointerMask + 1))
      payload == IF str.len = 0 THEN data ELSE data - sizeofPayload
  IN  IF data = 0 THEN 0
      ELSE IF Load(m, payload, 8) # makeChecksum(data) THEN 0
      ELSE payload

\* The address of the header's data field.
DataField(payload) == payload + 8

Is(m, str) == read(m, str) # 0

Read(m, str) ==
  IF read(m, str) = 0 THEN NilData ELSE Load(m, DataField(read(m, str)), 16)

(* ---------------------------- allocation ----------------------------- *)

\* What an allocating call leaves: the memory, the string it returns, and the
\* object it made.  kind: "payload" (a bare magicStringPayload), "holder" (a
\* typed holder struct), "large" (a []byte with a header in front), "plain" (a
\* []byte without one).  fin: a finalizer is registered; env: the payload its
\* closure captured; ran: the finalizer has run.
Made(m, str, base, size, kind, fin, env) ==
  [mem |-> m, str |-> str,
   obj |-> [base |-> base, size |-> size, kind |-> kind, fin |-> fin, env |-> env,
            ran |-> FALSE]]

\* attachEmptyString: a bare header; the string points at the header itself.
attachEmptyString(m, b, data) ==
  Made(Store(Store(m, b, makeChecksum(b)), DataField(b), data),
       Str(b, 0), b, sizeofPayload, "payload", FALSE, NilData)

\* newPayload: the holder of the smallest size class that fits size bytes.
newPayload(b, size) ==
  LET idx == SearchInts(holderWithSizeClasses, size)
      sz == holderWithSizeClasses[idx + 1] + sizeofPayload
  IN  [payload |-> b, dst |-> b + sizeofPayload, sz |-> sz]

\* attachSmallString with the checksum taken of the header's address, as
\* attachEmptyString takes it, instead of the address of the bytes.
attachSmallStringAtHeader(m, b, str, data) ==
  LET np == newPayload(b, str.len)
      m1 == Store(m, np.dst, Bytes(m, str))
      m2 == Store(m1, np.payload, makeChecksum(np.payload))
      m3 == Store(m2, DataField(np.payload), data)
  IN  Made(m3, Str(np.dst, str.len), b, np.sz, "holder", FALSE, NilData)

\* attachSmallString: header and bytes in one typed holder.
attachSmallString(m, b, str, data) ==
  LET np == newPayload(b, str.len)
      m1 == Store(m, np.dst, Bytes(m, str))
      m2 == Store(m1, np.payload, makeChecksum(np.dst))
      m3 == Store(m2, DataField(np.payload), data)
  IN  Made(m3, Str(np.dst, str.len), b, np.sz, "holder", FALSE, NilData)

\* attachLargeString: header and bytes in one []byte, which the collector does
\* not scan; the payload is held by the finalizer's closure when it is not nil.
attachLargeString(m, b, str, data) ==
  LET dst == b + sizeofPayload
      m1 == Store(m, b, makeChecksum(dst))
      m2 == Store(m1, DataField(b), data)
      m3 == Store(m2, dst, Bytes(m, str))
  IN  Made(m3, Str(dst, str.len), b, RoundUp(str.len + sizeofPayload), "large",
           data # NilData, data)

\* make([]byte, len(str)); copy(dst, str): a plain copy, no header.
CopyAt(m, b, str) ==
  Made(Store(m, b, Bytes(m, str)), Str(b, str.len), b, RoundUp(str.len),
       "plain", FALSE, NilData)

\* Attach with a nil check in front: a nil payload gives a plain copy.
AttachAtNilCopies(m, b, str, data) ==
  IF data = NilData THEN CopyAt(m, b, str)
  ELSE IF str.len = 0 THEN attachEmptyString(m, b, data)
  ELSE IF str.len <= smallStringMax THEN attachSmallString(m, b, str, data)
  ELSE attachLargeString(m, b, str, data)

\* Attach: the three paths by length.
AttachAt(m, b, str, data) ==
  IF str.len = 0 THEN attachEmptyString(m, b, data)
  ELSE IF str.len <= smallStringMax THEN attachSmallString(m, b, str, data)
  ELSE attachLargeString(m, b, str, data)

CanAlloc == brk + MaxAllocSize <= MemSize

\* The history of a call.
Call(op, arg, sub, data, res, ok) ==
  [op |-> op, arg |-> arg, sub |-> sub, bytes |-> Bytes(mem, sub), pre |-> read(mem, arg),
   old |-> Read(mem, arg), data |-> data, res |-> res, ok |-> ok]

\* The header a string returned by Attach was given.
HeaderOf(ptr, len) == IF len = 0 THEN ptr ELSE ptr - sizeofPayload

\* An allocating call's effect on the heap.
Take(r) ==
  /\ mem' = r.mem
  /\ brk' = r.obj.base + r.obj.size
  /\ objs' = Append(objs, r.obj)

(* ------------------------- the caller's strings ---------------------- *)

\* The lengths the caller's strings take: one byte, the longest small string,
\* the shortest large one.
Lens == {1, smallStringMax, smallStringMax + 1}

\* The ranges <<begin, end>> the caller slices a string of n bytes by: the first
\* byte, all but the first byte, all of it, what lies a header's length in, the
\* empty range at the end, and one with begin > end.
Ranges(n) ==
  {r \in {<<0, 1>>, <<1, n>>, <<0, n>>, <<sizeofPayload, n>>, <<n, n>>, <<1, 0>>} :
     r[1] <= n /\ r[2] <= n}

\* The strings the caller makes of its buffers: the text at each length, and
\* the whole of the other buffer.
Inputs ==
  {Str(TextBase, n) : n \in Lens} \cup {Str(ForgedBase, smallStringMax + 1)}

\* "1234567890123...": the bytes of the test strings.
TextBytes(n) == [i \in 1..n |-> 48 + (i % 10)]

\* Bytes chosen against the checksum: every whole word of the buffer holds the
\* checksum of the address one header further on.
ForgedBytes(b, n) ==
  [i \in 1..n |->
     LET k == (i - 1) \div 8
     IN  IF 8 * k + 8 <= n
         THEN makeChecksum(b + 8 * k + sizeofPayload)[((i - 1) % 8) + 1]
         ELSE TextBytes(n)[i]]

\* A buffer of the caller's own: a []byte with no header.
Plain(b, n) ==
  [base |-> b, size |-> RoundUp(n), kind |-> "plain", fin |-> FALSE, env |-> NilData,
   ran |-> FALSE]

\* The caller's two buffers.
Buffers ==
  <<Plain(TextBase, smallStringMax + 1), Plain(ForgedBase, smallStringMax + 1)>>

\* The indices objects take in objs.
Objects == 1..(Len(Buffers) + MaxAllocs)

Init ==
  /\ mem = Store(Store([a \in Addrs |-> 0],
                       TextBase, TextBytes(smallStringMax + 1)),
                 ForgedBase, ForgedBytes(ForgedBase, smallStringMax + 1))
  /\ brk = HeapBase
  /\ objs = Buffers
  /\ strs = [v \in Vars |-> EmptyStr]
  /\ held = Data
  /\ released = {}
  /\ steps = 0
  /\ abs = <<>>
  /\ last = Call("none", EmptyStr, EmptyStr, NilData, EmptyStr, TRUE)

\* The caller takes a step.
Tick == steps < MaxSteps /\ steps' = steps + 1

\* The history after a step of the caller's own: no call is the last one.
NoCall == Call("none", EmptyStr, EmptyStr, NilData, EmptyStr, TRUE)

\* s := a string of the caller's own.
Input(v, str) ==
  /\ Tick
  /\ strs[v] # str
  /\ strs' = [strs EXCEPT ![v] = str]
  /\ last' = NoCall
  /\ UNCHANGED <<mem, brk, objs, held, released, abs>>

\* b := a.
Copy(dst, src) ==
  /\ Tick
  /\ dst # src
  /\ strs[dst] # strs[src]
  /\ strs' = [strs EXCEPT ![dst] = strs[src]]
  /\ last' = NoCall
  /\ UNCHANGED <<mem, brk, objs, held, released, abs>>

\* b := a[begin:end], the built-in slice expression.
Sub(dst, src, begin, end) ==
  /\ Tick
  /\ begin <= end
  /\ strs[dst] # SubStr(strs[src], begin, end)
  /\ strs' = [strs EXCEPT ![dst] = SubStr(strs[src], begin, end)]
  /\ last' = NoCall
  /\ UNCHANGED <<mem, brk, objs, held, released, abs>>

\* a = "": the variable lets go of its string.
Drop(v) ==
  /\ Tick
  /\ strs[v] # EmptyStr
  /\ strs' = [strs EXCEPT ![v] = EmptyStr]
  /\ last' = NoCall
  /\ UNCHANGED <<mem, brk, objs, held, released, abs>>

\* data = nil: the caller lets go of a payload object.
DropData(p) ==
  /\ Tick
  /\ p \in held
  /\ held' = held \ {p}
  /\ UNCHANGED <<mem, brk, objs, strs, released, abs, last>>

(* --------------------------- the package ----------------------------- *)

\* Attach that stores into the header str already has instead of making one.
AttachInPlace(dst, src, data) ==
  LET payload == read(mem, strs[src])
  IN  /\ Tick
      /\ CanAlloc
      /\ IF payload # 0
         THEN /\ mem' = Store(mem, DataField(payload), data)
              /\ strs' = [strs EXCEPT ![dst] = strs[src]]
              /\ last' = Call("Attach", strs[src], strs[src], data, strs[src], TRUE)
              /\ UNCHANGED <<brk, objs, abs>>
         ELSE \E r \in {AttachAt(mem, brk, strs[src], data)} :
                /\ Take(r)
                /\ strs' = [strs EXCEPT ![dst] = r.str]
                /\ abs' = (r.str.ptr :> [len |-> r.str.len, data |-> data]) @@ abs
                /\ last' = Call("Attach", strs[src], strs[src], data, r.str, TRUE)
      /\ UNCHANGED <<held, released>>

\* Attach(str, data).
Attach(dst, src, data) ==
  /\ Tick
  /\ CanAlloc
  /\ \E r \in {AttachAt(mem, brk, strs[src], data)} :
         /\ Take(r)
         /\ strs' = [strs EXCEPT ![dst] = r.str]
         /\ abs' = (r.str.ptr :> [len |-> r.str.len, data |-> data]) @@ abs
         /\ last' = Call("Attach", strs[src], strs[src], data, r.str, TRUE)
  /\ UNCHANGED <<held, released>>

\* Replace that takes a nil payload for nothing to store.
ReplaceSkipsNil(v, data) ==
  LET payload == read(mem, strs[v])
      found == payload # 0 /\ data # NilData
  IN  /\ Tick
      /\ mem' = IF found THEN Store(mem, DataField(payload), data) ELSE mem
      /\ abs' = [q \in DOMAIN abs |->
                   IF payload # 0 /\ HeaderOf(q, abs[q].len) = payload
                   THEN [abs[q] EXCEPT !.data = data] ELSE abs[q]]
      /\ last' = Call("Replace", strs[v], strs[v], data, strs[v], payload # 0)
      /\ UNCHANGED <<brk, objs, strs, held, released>>

\* Replace(str, data).
Replace(v, data) ==
  LET payload == read(mem, strs[v])
  IN  /\ Tick
      /\ mem' = IF payload = 0 THEN mem ELSE Store(mem, DataField(payload), data)
      /\ abs' = [q \in DOMAIN abs |->
                   IF payload # 0 /\ HeaderOf(q, abs[q].len) = payload
                   THEN [abs[q] EXCEPT !.data = data] ELSE abs[q]]
      /\ last' = Call("Replace", strs[v], strs[v], data, strs[v], payload # 0)
      /\ UNCHANGED <<brk, objs, strs, held, released>>

\* Detach: "" for an empty string, str itself when read finds no header, a
\* plain copy otherwise.  new: the call allocated.
DetachAt(m, b, str) ==
  IF str.len = 0 THEN [mem |-> m, str |-> EmptyStr, new |-> FALSE]
  ELSE IF read(m, str) = 0 THEN [mem |-> m, str |-> str, new |-> FALSE]
  ELSE [mem |-> CopyAt(m, b, str).mem, str |-> CopyAt(m, b, str).str, new |-> TRUE]

\* Detach(str).
Detach(dst, src) ==
  /\ Tick
  /\ \E d \in {DetachAt(mem, brk, strs[src])} :
       /\ d.new => CanAlloc
       /\ mem' = d.mem
       /\ brk' = IF d.new THEN brk + RoundUp(d.str.len) ELSE brk
       /\ objs' = IF d.new THEN Append(objs, CopyAt(mem, brk, strs[src]).obj) ELSE objs
       /\ strs' = [strs EXCEPT ![dst] = d.str]
       /\ last' = Call("Detach", strs[src], strs[src], NilData, d.str, TRUE)
  /\ UNCHANGED <<held, released, abs>>

\* Slice(str, begin, end).
Slice(dst, src, begin, end) ==
  LET str == strs[src]
      payload == read(mem, str)
      sliced == SubStr(str, begin, end)
  IN  /\ Tick
      /\ IF begin > end
         THEN /\ last' = Call("panic", str, EmptyStr, NilData, EmptyStr, FALSE)
              /\ UNCHANGED <<mem, brk, objs, strs, held, released, abs>>
         ELSE IF payload = 0
         THEN /\ strs' = [strs EXCEPT ![dst] = sliced]
              /\ last' = Call("Slice", str, sliced, NilData, sliced, TRUE)
              /\ UNCHANGED <<mem, brk, objs, held, released, abs>>
         ELSE /\ CanAlloc
              /\ \E data \in {Load(mem, DataField(payload), 16)} :
                   \E r \in {AttachAt(mem, brk, sliced, data)} :
                     /\ Take(r)
                     /\ strs' = [strs EXCEPT ![dst] = r.str]
                     /\ abs' = (r.str.ptr :> [len |-> r.str.len, data |-> data]) @@ abs
                     /\ last' = Call("Slice", str, sliced, data, r.str, TRUE)
              /\ UNCHANGED <<held, released>>

(* --------------------------- the collector --------------------------- *)

\* A variable of the caller points into the object (interior pointers count).
Reachable(o) ==
  \E v \in Vars : strs[v].ptr >= o.base /\ strs[v].ptr < o.base + o.size

\* Something the collector sees refers to payload object p: the caller, the data
\* field of a reachable object it scans, or the closure of a pending finalizer.
Retained(p) ==
  \/ p \in held
  \/ \E i \in 1..Len(objs) :
       \/ /\ objs[i].kind \in {"payload", "holder"}
          /\ Reachable(objs[i])
          /\ Load(mem, DataField(objs[i].base), 16) = Iface(p)
       \/ objs[i].fin /\ objs[i].env = Iface(p)

\* A finalizer that registers itself again and keeps what it captured.
RunFinalizerAgain(i) ==
  /\ objs[i].fin
  /\ ~Reachable(objs[i])
  /\ UNCHANGED vars

\* The finalizer of an unreachable object runs: data = nil in its closure.
RunFinalizer(i) ==
  /\ objs[i].fin
  /\ ~Reachable(objs[i])
  /\ objs' = [objs EXCEPT ![i].fin = FALSE, ![i].env = NilData, ![i].ran = TRUE]
  /\ UNCHANGED <<mem, brk, strs, held, released, steps, abs, last>>

\* The collector reclaims a payload object nothing refers to any more.
ReleaseData(p) ==
  /\ p \notin released
  /\ ~Retained(p)
  /\ released' = released \cup {p}
  /\ UNCHANGED <<mem, brk, objs, strs, held, steps, abs, last>>

(* ------------------------------ Next --------------------------------- *)

\* The calls and the caller's own steps, on both of its buffers.
Next ==
  \/ \E str \in Inputs : Input(1, str)
  \/ \E dst \in Vars, src \in Vars : Copy(dst, src)
  \/ \E dst \in Vars, src \in Vars :
       \E r \in Ranges(strs[src].len) : Sub(dst, src, r[1], r[2])
  \/ \E dst \in Vars, src \in Vars, data \in Payloads : Attach(dst, src, data)
  \/ \E v \in Vars, data \in Payloads : Replace(v, data)
  \/ \E dst \in Vars, src \in Vars : Detach(dst, src)
  \/ \E dst \in Vars, src \in Vars :
       \E r \in Ranges(strs[src].len) : Slice(dst, src, r[1], r[2])

Spec == Init /\ [][Next]_vars

\* A step of the collector.
Collect ==
  \/ \E i \in 1..Len(objs) : RunFinalizer(i)
  \/ \E p \in Data : ReleaseData(p)

\* The calls on the caller's text, with the collector running in between.
NextGC ==
  \/ \E n \in Lens : Input(1, Str(TextBase, n))
  \/ \E dst \in Vars, src \in Vars : Copy(dst, src)
  \/ \E v \in Vars : Drop(v)
  \/ \E p \in Data : DropData(p)
  \/ \E dst \in Vars, src \in Vars, data \in Payloads : Attach(dst, src, data)
  \/ \E v \in Vars, data \in Payloads : Replace(v, data)
  \/ \E i \in 1..Len(objs) : RunFinalizer(i)
  \/ \E p \in Data : ReleaseData(p)

\* runtime.GC(): a collector step that can be taken is taken.
SpecGC == Init /\ [][NextGC]_vars /\ WF_vars(Collect)

(* ---------------------------- properties ---------------------------- *)

\* str is a value Attach or Slice returned with a header: its pointer is the
\* one the call returned and its length is the one it had.
MadeStr(str) == str.ptr \in DOMAIN abs /\ abs[str.ptr].len = str.len

\* str was never returned by Attach: the nil pointer, or a pointer into a
\* []byte made without a header.
Foreign(str) ==
  \/ str.ptr = 0
  \/ \E i \in 1..Len(objs) :
       /\ objs[i].kind = "plain"
       /\ str.ptr >= objs[i].base
       /\ str.ptr < objs[i].base + objs[i].size

\* C1: round trip.  For every string s (empty, small, large) and every payload
\* d, a := Attach(s, d) has Is(a) = true, Read(a) = d, len(a) = len(s) and the
\* bytes of s.
C1_RoundTrip ==
  last.op = "Attach" =>
    /\ Is(mem, last.res)
    /\ Read(mem, last.res) = last.data
    /\ last.res.len = last.arg.len
    /\ Bytes(mem, last.res) = last.bytes

\* C1 happens: Attach of the shortest large string with a payload.
C1_AttachedLarge ==
  /\ last.op = "Attach"
  /\ last.arg.len = smallStringMax + 1
  /\ last.data = Iface(1)
  /\ Read(mem, last.res) = Iface(1)
  /\ Bytes(mem, last.res) = TextBytes(smallStringMax + 1)

\* C2 as stated: Attach with a nil payload behaves as Detach; the result has no
\* header, so Is on it is false and Read on it is nil.
C2_NilDetaches ==
  (last.op = "Attach" /\ last.data = NilData) =>
    /\ ~Is(mem, last.res)
    /\ Read(mem, last.res) = NilData

\* C2 as the code has it: Attach with a nil payload makes a header as for any
\* other payload; the result is a new string with Is = true and Read = nil,
\* whether or not the input had a header.
C2_NilAttaches ==
  (last.op = "Attach" /\ last.data = NilData) =>
    /\ Is(mem, last.res)
    /\ Read(mem, last.res) = NilData
    /\ last.res.ptr >= HeapBase
    /\ last.res.ptr # last.arg.ptr
    /\ Bytes(mem, last.res) = last.bytes

\* C2 happens: Attach with nil of a string that has a header with a payload.
C2_NilOnAttached ==
  /\ last.op = "Attach"
  /\ last.data = NilData
  /\ last.pre # 0
  /\ last.old = Iface(1)
  /\ Is(mem, last.res)

\* C3: Replace is seen through every copy.  Every copy of a string Attach
\* returned has Is = true and reads the payload of the last Replace through any
\* copy (that of the Attach if there was none), a nil payload included; Replace
\* through such a copy returns true.
C3_ReplaceVisible ==
  /\ \A v \in Vars :
       MadeStr(strs[v]) =>
         /\ Is(mem, strs[v])
         /\ Read(mem, strs[v]) = abs[strs[v].ptr].data
  /\ (last.op = "Replace" /\ MadeStr(last.arg)) =>
       /\ last.ok
       /\ \A v \in Vars : strs[v] = last.arg => Read(mem, strs[v]) = last.data

\* C3 happens: two variables hold the same attached string and a Replace through
\* one of them has changed the payload.
C3_ReplacedThroughCopy ==
  /\ last.op = "Replace"
  /\ last.ok
  /\ MadeStr(last.arg)
  /\ last.data # last.old
  /\ \A v \in Vars : strs[v] = last.arg /\ Read(mem, strs[v]) = last.data

\* C4: the payload Read returns through a live string has not been reclaimed,
\* on every allocation path and also for a payload stored by Replace.
C4_PayloadKeptAlive ==
  \A v \in Vars, p \in Data :
    (Is(mem, strs[v]) /\ Read(mem, strs[v]) = Iface(p)) => p \notin released

\* Object o refers to payload p: by the data field of its header, or by the
\* closure of its finalizer.
Holds(o, p) ==
  \/ o.kind # "plain" /\ Load(mem, DataField(o.base), 16) = Iface(p)
  \/ o.fin /\ o.env = Iface(p)

\* Nothing live refers to payload p: not the caller, and no object a variable
\* still points to.
Unreferenced(p) ==
  /\ p \notin held
  /\ \A i \in 1..Len(objs) : Holds(objs[i], p) => ~Reachable(objs[i])

\* C5: reclamation liveness.  Once the caller holds no reference to a payload
\* and every string whose header refers to it is unreachable, the payload is
\* eventually released; the finalizer of a large attachment runs after the
\* attachment becomes unreachable.
C5_EventuallyReleased ==
  /\ \A p \in Data : Unreferenced(p) ~> (p \in released)
  /\ \A i \in Objects :
       (i <= Len(objs) /\ objs[i].fin /\ ~Reachable(objs[i]))
         ~> (i <= Len(objs) /\ objs[i].ran)

\* C5 happens: the finalizer of a large attachment has run and the payload its
\* header stored has been released.
C5_LargeReleased ==
  \E i \in 1..Len(objs), p \in Data :
    /\ objs[i].kind = "large"
    /\ objs[i].ran
    /\ p \in released
    /\ Load(mem, DataField(objs[i].base), 16) = Iface(p)

\* C6: Slice preserves attachment.  For a := Attach(s, d) and every range
\* 0 <= i <= j <= len(s), r := Slice(a, i, j) has Is(r) = true, Read(r) = d and
\* the bytes of s[i:j]; for a string with no header Slice returns the ordinary
\* sub-range, with Is = false; Slice with begin > end returns nothing.
C6_SlicePreserves ==
  /\ (last.op = "Slice" /\ MadeStr(last.arg)) =>
       /\ Is(mem, last.res)
       /\ Read(mem, last.res) = last.old
       /\ Bytes(mem, last.res) = last.bytes
  /\ (last.op = "Slice" /\ last.pre = 0) =>
       /\ last.res = last.sub
       /\ ~Is(mem, last.res)
  /\ last.op = "Slice" => last.sub.len >= 0

\* C7: foreign buffer safety.  For every string never returned by Attach,
\* whatever bytes precede it, Is is false and Read is nil, and Replace returns
\* false and writes nothing.
C7_ForeignIsPlain ==
  /\ \A v \in Vars :
       Foreign(strs[v]) => (~Is(mem, strs[v]) /\ Read(mem, strs[v]) = NilData)
  /\ (last.op = "Replace" /\ Foreign(last.arg)) => ~last.ok

C9_DetachPlain ==
  last.op = "Detach" =>
    /\ Bytes(mem, last.res) = last.bytes
    /\ ~Is(mem, last.res)
    /\ Read(mem, last.res) = NilData
    /\ (last.pre = 0 /\ last.arg.len > 0) => last.res = last.arg
    /\ CanAlloc =>
         Bytes(DetachAt(mem, brk, last.res).mem, DetachAt(mem, brk, last.res).str)
           = Bytes(mem, last.res)

\* C10: only the pointer Attach returned finds the header.  A built-in
\* sub-range a[i:j] with i >= 1 of an attached string a has Is = false and
\* Read = nil.
C10_SubRangeLosesHeader ==
  \A v \in Vars :
    MadeStr(strs[v]) =>
      \A r \in Ranges(strs[v].len) :
        (r[1] >= 1 /\ r[1] <= r[2]) =>
          /\ ~Is(mem, SubStr(strs[v], r[1], r[2]))
          /\ Read(mem, SubStr(strs[v], r[1], r[2])) = NilData

====
